---- MODULE Spec2Model ----
(***************************************************************************)
(* A model of the x86 subset emulator of src/emulator.go.                  *)
(*                                                                         *)
(* Representation.  TLC's integers are narrower than a uint32, so a uint32 *)
(* is a tuple of 4 bytes and a uint64 a tuple of 8 bytes, least            *)
(* significant byte first; arithmetic on them is carried out byte by byte  *)
(* and wraps at the width of the tuple, as Go's unsigned arithmetic does.  *)
(* An int32 is held as its two's complement uint32 bit pattern.  Values    *)
(* the code keeps in a byte (uint8), or that never leave -128..255, are    *)
(* plain integers.                                                         *)
(*                                                                         *)
(* The emulator's state is the record                                      *)
(*   [Registers, Eflags, Memory, Eip, status, out]                         *)
(* status is "running" while Run's loop is live, "halted" once the loop    *)
(* has left through one of its two break statements, "exited" after        *)
(* os.Exit and "panic" after a Go run-time panic (a slice index out of     *)
(* range).  out is what IoOut8 has printed.  Handlers are operators from   *)
(* state to state; the actions of the specification are the iterations of  *)
(* Run's loop, one action per case of executeOpCode's switch.              *)
(***************************************************************************)
EXTENDS Integers, Naturals, Sequences, FiniteSets, TLC

\* Emulator.MaxMemorySize, len(Emulator.Memory): the size of the memory image.
MaxMemorySize == 64
\* The offset the program is loaded at; entry point and initial stack pointer.
Org == 16

VARIABLES
    Registers,  \* Emulator.Registers: [0..7 -> uint32]
    Eflags,     \* Emulator.Eflags: uint32
    Memory,     \* Emulator.Memory: [0..MaxMemorySize-1 -> byte]
    Eip,        \* Emulator.Eip: uint32
    status,     \* "running", "halted", "exited", "panic"
    out,        \* the bytes IoOut8 has written to the console port
    image,      \* the program bytes that were loaded at Org (never changes)
    op,         \* the handler the last loop iteration dispatched to
    prev        \* the emulator state before the last loop iteration

vars == <<Registers, Eflags, Memory, Eip, status, out, image, op, prev>>

----------------------------------------------------------------------------
\* Fixed-width unsigned arithmetic on little-endian byte tuples.

RegistersCount == 8
CEax == 0
CEcx == 1
CEdx == 2
CEbx == 3
CEsp == 4
CEbp == 5
CEsi == 6
CEdi == 7
CAl == CEax
CAh == CEax + 4
CBl == CEbx

\* The uint32 with value n, for 0 <= n < 2^31.
U32(n) == <<n % 256, (n \div 256) % 256, (n \div 65536) % 256, (n \div 16777216) % 256>>

Zero32 == <<0, 0, 0, 0>>
Zero64 == <<0, 0, 0, 0, 0, 0, 0, 0>>

RECURSIVE AddB(_, _, _)
\* a + b + c on byte tuples of equal length, wrapping at their width.
AddB(a, b, c) ==
    IF a = <<>> THEN <<>>
    ELSE <<(Head(a) + Head(b) + c) % 256>>
         \o AddB(Tail(a), Tail(b), (Head(a) + Head(b) + c) \div 256)

RECURSIVE SubB(_, _, _)
\* a - b - c on byte tuples of equal length, wrapping at their width.
SubB(a, b, c) ==
    IF a = <<>> THEN <<>>
    ELSE <<(Head(a) - Head(b) - c + 256) % 256>>
         \o SubB(Tail(a), Tail(b), IF Head(a) - Head(b) - c < 0 THEN 1 ELSE 0)

Add32(a, b) == AddB(a, b, 0)
Sub32(a, b) == SubB(a, b, 0)
Sub64(a, b) == SubB(a, b, 0)
\* ^a and -a on a uint32 (Go: bitwise complement, two's complement negation).
Not32(a) == <<255 - a[1], 255 - a[2], 255 - a[3], 255 - a[4]>>
Neg32(a) == Sub32(Zero32, a)

RECURSIVE BitAnd(_, _, _)
\* The bitwise and / or of two n-bit naturals.
BitAnd(a, b, n) ==
    IF n = 0 THEN 0
    ELSE (a % 2) * (b % 2) + 2 * BitAnd(a \div 2, b \div 2, n - 1)

RECURSIVE BitOr(_, _, _)
BitOr(a, b, n) ==
    IF n = 0 THEN 0
    ELSE (IF a % 2 = 1 \/ b % 2 = 1 THEN 1 ELSE 0) + 2 * BitOr(a \div 2, b \div 2, n - 1)

And32(a, b) ==
    <<BitAnd(a[1], b[1], 8), BitAnd(a[2], b[2], 8), BitAnd(a[3], b[3], 8), BitAnd(a[4], b[4], 8)>>
Or32(a, b) ==
    <<BitOr(a[1], b[1], 8), BitOr(a[2], b[2], 8), BitOr(a[3], b[3], 8), BitOr(a[4], b[4], 8)>>
\* a << (i * 8) and a >> (i * 8) on a uint32, for i in 0..3.
Shl(a, i) ==
    IF i = 0 THEN a
    ELSE IF i = 1 THEN <<0, a[1], a[2], a[3]>>
    ELSE IF i = 2 THEN <<0, 0, a[1], a[2]>>
    ELSE <<0, 0, 0, a[1]>>
Shr(a, i) ==
    IF i = 0 THEN a
    ELSE IF i = 1 THEN <<a[2], a[3], a[4], 0>>
    ELSE IF i = 2 THEN <<a[3], a[4], 0, 0>>
    ELSE <<a[4], 0, 0, 0>>
\* a >> 31 on a uint32.
Shr31(a) == a[4] \div 128

\* uint32(b) for a byte b, uint64(a) for a uint32 a: zero extension.
U32OfByte(b) == <<b, 0, 0, 0>>
U64(a) == a \o <<0, 0, 0, 0>>
\* uint8(a) and uint32(r) for a uint32 a and a uint64 r: truncation.
Lo8(a) == a[1]
Lo32(r) == SubSeq(r, 1, 4)
\* r >> 32 for a uint64 r, as a uint32.
Hi32(r) == SubSeq(r, 5, 8)

\* a < b as unsigned integers, most significant byte first.
Lt32(a, b) ==
    \/ a[4] < b[4]
    \/ a[4] = b[4] /\ a[3] < b[3]
    \/ a[4] = b[4] /\ a[3] = b[3] /\ a[2] < b[2]
    \/ a[4] = b[4] /\ a[3] = b[3] /\ a[2] = b[2] /\ a[1] < b[1]

\* uint32(n) and uint64(n) for a signed integer n in -128..255 (an int8 or a small
\* int32): Go's conversion sign-extends.
U32OfInt(n) == IF n >= 0 THEN <<n, 0, 0, 0>> ELSE <<256 + n, 255, 255, 255>>
U64OfInt(n) ==
    IF n >= 0 THEN <<n, 0, 0, 0, 0, 0, 0, 0>>
    ELSE <<256 + n, 255, 255, 255, 255, 255, 255, 255>>
\* int8(n) for -256 < n < 256: wraps into -128..127.
Int8(n) == ((n + 128) % 256) - 128
\* int32 comparison d > 0 on a bit pattern.
IsPos32(d) == d[4] < 128 /\ d # Zero32

\* eflags bits
CarryFlag == <<1, 0, 0, 0>>
ZeroFlag == <<64, 0, 0, 0>>
SignFlag == <<128, 0, 0, 0>>
OverFlowFlag == <<0, 8, 0, 0>>

----------------------------------------------------------------------------
\* Control flow.  A read gives [st, val]: st is "running" and val the value read,
\* or st says how the read ended the process ("panic": a slice index out of
\* range, "exited": os.Exit).

Ok(v) == [st |-> "running", val |-> v]
Fail(st) == [st |-> st, val |-> 0]

\* The state s after the process has ended in the way st says.
Stop(s, st) == [s EXCEPT !.status = st]
Exit(s) == Stop(s, "exited")
Panic(s) == Stop(s, "panic")

\* v bound to F's parameter.
Bind(v, F(_)) == F(v)
\* The statements F that follow the read r made in state s.
Try(s, r, F(_)) == IF r.st # "running" THEN Stop(s, r.st) ELSE F(r.val)
\* The expression F that uses the value of the read r.
Use(r, F(_)) == IF r.st # "running" THEN r ELSE F(r.val)
\* The statements F that follow the statements that gave state s1.
Then(s1, F(_)) == IF s1.status # "running" THEN s1 ELSE F(s1)

----------------------------------------------------------------------------
\* Memory and registers.  Indexing Emulator.Memory outside 0..len-1 panics.

InMem(a) == Lt32(a, U32(MaxMemorySize))
Idx(a) == a[1] + 256 * a[2] + 65536 * a[3]

setMemory8(s, address, value) ==
    IF s.status # "running" THEN s
    ELSE IF ~InMem(address) THEN Panic(s)
    ELSE [s EXCEPT !.Memory[Idx(address)] = Lo8(And32(value, U32(255)))]

getMemory8(s, address) ==
    IF InMem(address) THEN Ok(s.Memory[Idx(address)]) ELSE Fail("panic")

RECURSIVE setMemory32Loop(_, _, _, _)
setMemory32Loop(s, address, value, i) ==
    IF i = 4 THEN s
    ELSE setMemory32Loop(
             setMemory8(s, Add32(address, U32(i)), And32(Shr(value, i), U32(255))),
             address, value, i + 1)

\* setMemory32 with the most significant byte at the lowest address.
setMemory32BigEndian(s, address, value) ==
    setMemory32Loop(s, address, <<value[4], value[3], value[2], value[1]>>, 0)

setMemory32(s, address, value) == setMemory32Loop(s, address, value, 0)

RECURSIVE getMemory32Loop(_, _, _, _)
getMemory32Loop(s, address, ret, i) ==
    IF i = 4 THEN Ok(ret)
    ELSE Use(getMemory8(s, Add32(address, U32(i))),
             LAMBDA b : getMemory32Loop(s, address, Or32(ret, Shl(U32OfByte(b), i)), i + 1))

getMemory32(s, address) == getMemory32Loop(s, address, Zero32, 0)

\* Reads relative to the program counter.
GetCode8(s, index) ==
    Use(getMemory8(s, Add32(s.Eip, U32(index))), LAMBDA b : Ok(b))

\* The int32 result is in -128..127.
GetSignCode8(s, index) ==
    Use(getMemory8(s, Add32(s.Eip, U32(index))),
        LAMBDA val : IF val \div 128 = 0 THEN Ok(val) ELSE Ok(-(((255 - val) + 1) % 256)))

RECURSIVE GetCode32Loop(_, _, _, _)
GetCode32Loop(s, index, ret, i) ==
    IF i = 4 THEN Ok(ret)
    ELSE Use(GetCode8(s, index + i),
             LAMBDA b : GetCode32Loop(s, index, Or32(ret, Shl(U32OfByte(b), i)), i + 1))

GetCode32(s, index) == GetCode32Loop(s, index, Zero32, 0)

\* The int32 result, as its bit pattern.
GetSignCode32(s, index) ==
    Use(GetCode32(s, index),
        LAMBDA val : IF Shr31(val) = 0 THEN Ok(val) ELSE Ok(Neg32(Add32(Not32(val), U32(1)))))

setRegister32(s, index, value) ==
    IF s.status # "running" THEN s ELSE [s EXCEPT !.Registers[index] = value]

getRegister32(s, index) == s.Registers[index]

getRegister8(s, index) ==
    IF index < 4 THEN Lo8(And32(s.Registers[index], U32(255)))
    ELSE Lo8(And32(Shr(s.Registers[index - 4], 1), U32(255)))

\* setRegister8 with the high-byte views written to the register of the same
\* index, not to the register index - 4.
setRegister8SameIndex(s, index, value) ==
    IF s.status # "running" THEN s
    ELSE IF index < 4
    THEN [s EXCEPT !.Registers[index] =
              Or32(And32(@, <<0, 255, 255, 255>>), U32OfByte(value))]
    ELSE [s EXCEPT !.Registers[index] =
              Or32(And32(@, <<255, 0, 255, 255>>), Shl(U32OfByte(value), 1))]

setRegister8(s, index, value) ==
    IF s.status # "running" THEN s
    ELSE IF index < 4
    THEN [s EXCEPT !.Registers[index] =
              Or32(And32(@, <<0, 255, 255, 255>>), U32OfByte(value))]
    ELSE [s EXCEPT !.Registers[index - 4] =
              Or32(And32(@, <<255, 0, 255, 255>>), Shl(U32OfByte(value), 1))]

----------------------------------------------------------------------------
\* The addressing decoder.

\* The zero value of the ModRM struct.
ModRM == [Mod |-> 0, Reg |-> 0, Rm |-> 0, Sib |-> 0, Disp8 |-> 0, Disp32 |-> Zero32]

AdvanceEip(s, n) == [s EXCEPT !.Eip = Add32(@, U32(n))]

\* ParseModrm gives the descriptor m and the state s it leaves; s.status is "panic"
\* when a byte of the descriptor lies outside memory.  ParseDisp is its third part,
\* the displacement, ParseSib its second, the SIB byte.
ParseDisp(s, m) ==
    IF (m.Mod = 0 /\ m.Rm = 5) \/ m.Mod = 2
    THEN Bind(GetSignCode32(s, 0),
              LAMBDA d : IF d.st # "running" THEN [s |-> Panic(s), m |-> m]
                         ELSE [s |-> AdvanceEip(s, 4), m |-> [m EXCEPT !.Disp32 = d.val]])
    ELSE IF m.Mod = 1
    THEN Bind(GetSignCode8(s, 0),
              LAMBDA d : IF d.st # "running" THEN [s |-> Panic(s), m |-> m]
                         ELSE [s |-> AdvanceEip(s, 1), m |-> [m EXCEPT !.Disp8 = Int8(d.val)]])
    ELSE [s |-> s, m |-> m]

\* ParseSib consuming a SIB byte whenever r/m is 4, register-direct mode included.
ParseSibAnyMode(s, m) ==
    IF m.Rm = 4
    THEN Bind(GetCode8(s, 0),
              LAMBDA sib : IF sib.st # "running" THEN [s |-> Panic(s), m |-> m]
                           ELSE ParseDisp(AdvanceEip(s, 1), [m EXCEPT !.Sib = sib.val]))
    ELSE ParseDisp(s, m)

ParseSib(s, m) ==
    IF m.Mod # 3 /\ m.Rm = 4
    THEN Bind(GetCode8(s, 0),
              LAMBDA sib : IF sib.st # "running" THEN [s |-> Panic(s), m |-> m]
                           ELSE ParseDisp(AdvanceEip(s, 1), [m EXCEPT !.Sib = sib.val]))
    ELSE ParseDisp(s, m)

ParseModrm(s) ==
    Bind(GetCode8(s, 0),
         LAMBDA code :
             IF code.st # "running" THEN [s |-> Panic(s), m |-> ModRM]
             ELSE ParseSib(AdvanceEip(s, 1),
                           [ModRM EXCEPT !.Mod = BitAnd(code.val, 192, 8) \div 64,
                                         !.Reg = BitAnd(code.val, 56, 8) \div 8,
                                         !.Rm = BitAnd(code.val, 7, 8)]))

\* The statements F(s, m) that follow modRM := e.ParseModrm(), which gave p.
Parsed(p, F(_, _)) == IF p.s.status # "running" THEN p.s ELSE F(p.s, p.m)

\* calcMemoryAddress without the tests for r/m = 4: register 4 taken as the base.
calcMemoryAddressNoSib(s, m) ==
    IF m.Mod = 0 THEN
        IF m.Rm = 5 THEN Ok(m.Disp32) ELSE Ok(getRegister32(s, m.Rm))
    ELSE IF m.Mod = 1 THEN
        IF m.Disp8 > 0 THEN Ok(Add32(getRegister32(s, m.Rm), U32OfInt(m.Disp8)))
        ELSE Ok(Sub32(getRegister32(s, m.Rm), U32OfInt(Int8(-m.Disp8))))
    ELSE IF m.Mod = 2 THEN Ok(Add32(getRegister32(s, m.Rm), m.Disp32))
    ELSE Fail("exited")

\* Effective-address resolution; st is "exited" where the code calls os.Exit.
calcMemoryAddress(s, m) ==
    IF m.Mod = 0 THEN
        IF m.Rm = 4 THEN Fail("exited")
        ELSE IF m.Rm = 5 THEN Ok(m.Disp32)
        ELSE Ok(getRegister32(s, m.Rm))
    ELSE IF m.Mod = 1 THEN
        IF m.Rm = 4 THEN Fail("exited")
        ELSE IF m.Disp8 > 0 THEN Ok(Add32(getRegister32(s, m.Rm), U32OfInt(m.Disp8)))
        ELSE Ok(Sub32(getRegister32(s, m.Rm), U32OfInt(Int8(-m.Disp8))))
    ELSE IF m.Mod = 2 THEN
        IF m.Rm = 4 THEN Fail("exited")
        ELSE Ok(Add32(getRegister32(s, m.Rm), m.Disp32))
    ELSE Fail("exited")

getR32(s, m) == getRegister32(s, m.Reg)

setR32(s, m, value) == setRegister32(s, m.Reg, value)

getRm32(s, m) ==
    IF m.Mod = 3 THEN Ok(getRegister32(s, m.Rm))
    ELSE Use(calcMemoryAddress(s, m), LAMBDA address : getMemory32(s, address))

setRm32(s, m, value) ==
    IF s.status # "running" THEN s
    ELSE IF m.Mod = 3 THEN setRegister32(s, m.Rm, value)
    ELSE Try(s, calcMemoryAddress(s, m), LAMBDA address : setMemory32(s, address, value))

getRm8(s, m) ==
    IF m.Mod = 3 THEN Ok(getRegister8(s, m.Rm))
    ELSE Use(calcMemoryAddress(s, m), LAMBDA address : getMemory8(s, address))

setRm8(s, m, value) ==
    IF s.status # "running" THEN s
    ELSE IF m.Mod = 3 THEN setRegister8(s, m.Rm, value)
    ELSE Try(s, calcMemoryAddress(s, m),
             LAMBDA address : setMemory8(s, address, U32OfByte(value)))

setR8(s, m, value) == setRegister8(s, m.Reg, value)

getR8(s, m) == getRegister8(s, m.Reg)

----------------------------------------------------------------------------
\* The flag engine.

setCarry(s, b) ==
    IF b THEN [s EXCEPT !.Eflags = Or32(@, CarryFlag)]
    ELSE [s EXCEPT !.Eflags = And32(@, Not32(CarryFlag))]

setZero(s, b) ==
    IF b THEN [s EXCEPT !.Eflags = Or32(@, ZeroFlag)]
    ELSE [s EXCEPT !.Eflags = And32(@, Not32(ZeroFlag))]

setSign(s, b) ==
    IF b THEN [s EXCEPT !.Eflags = Or32(@, SignFlag)]
    ELSE [s EXCEPT !.Eflags = And32(@, Not32(SignFlag))]

setOverFlow(s, b) ==
    IF b THEN [s EXCEPT !.Eflags = Or32(@, OverFlowFlag)]
    ELSE [s EXCEPT !.Eflags = And32(@, Not32(OverFlowFlag))]

isCarry(s) == And32(s.Eflags, CarryFlag) # Zero32
isZero(s) == And32(s.Eflags, ZeroFlag) # Zero32
isSign(s) == And32(s.Eflags, SignFlag) # Zero32
isOverFlow(s) == And32(s.Eflags, OverFlowFlag) # Zero32

\* updateEflagsSub with the overflow rule of an addition: the operands' signs agree
\* and the result's differs.
updateEflagsSubAsAdd(s, v1, v2, result) ==
    setOverFlow(
        setSign(
            setZero(
                setCarry(s, Hi32(result) # Zero32),
                result = Zero64),
            BitAnd(Shr31(Lo32(result)), 1, 8) = 1),
        Shr31(v1) = Shr31(v2) /\ Shr31(v1) # BitAnd(Shr31(Lo32(result)), 1, 8))

\* v1, v2 are uint32, result is the uint64 the caller computed; signr is
\* (result >> 31) & 0x01.
updateEflagsSub(s, v1, v2, result) ==
    setOverFlow(
        setSign(
            setZero(
                setCarry(s, Hi32(result) # Zero32),
                result = Zero64),
            BitAnd(Shr31(Lo32(result)), 1, 8) = 1),
        Shr31(v1) # Shr31(v2) /\ Shr31(v1) # BitAnd(Shr31(Lo32(result)), 1, 8))

----------------------------------------------------------------------------
\* The instruction handlers.  Each takes the state at the start of the
\* instruction (Eip at the opcode byte) and gives the state it leaves.

\* reg := e.GetCode8(0) - base, for the opcodes that hold a register number.
OpcodeReg(s, base) == s.Memory[Idx(s.Eip)] - base

MovR32Imm32(s) ==
    Try(s, GetCode32(s, 1),
        LAMBDA value : AdvanceEip([s EXCEPT !.Registers[OpcodeReg(s, 184)] = value], 5))

\* JumpDiff8 with the instruction's length added on the forward branch only.
JumpDiff8Forward(s, diff, len) ==
    IF diff > 0
    THEN [s EXCEPT !.Eip = Add32(@, Add32(U32OfInt(diff), U32(len)))]
    ELSE [s EXCEPT !.Eip = Sub32(@, U32OfInt(-diff))]

\* The displacement arithmetic the short jumps share: diff is an int32 in -128..127,
\* len the instruction's length.
JumpDiff8(s, diff, len) ==
    IF diff > 0
    THEN [s EXCEPT !.Eip = Add32(@, Add32(U32OfInt(diff), U32(len)))]
    ELSE [s EXCEPT !.Eip = Add32(Sub32(@, U32OfInt(-diff)), U32(len))]

\* The same for a 4-byte displacement, diff an int32 bit pattern.
JumpDiff32(s, diff, len) ==
    IF IsPos32(diff)
    THEN [s EXCEPT !.Eip = Add32(@, Add32(diff, U32(len)))]
    ELSE [s EXCEPT !.Eip = Add32(Sub32(@, Neg32(diff)), U32(len))]

ShortJump(s) == Try(s, GetSignCode8(s, 1), LAMBDA diff : JumpDiff8(s, diff, 2))

NearJump(s) == Try(s, GetSignCode32(s, 1), LAMBDA diff : JumpDiff32(s, diff, 5))

MovRm32Imm32(s) ==
    Parsed(ParseModrm(AdvanceEip(s, 1)),
           LAMBDA s1, m : Try(s1, GetCode32(s1, 0),
                              LAMBDA value : setRm32(AdvanceEip(s1, 4), m, value)))

MovRm32R32(s) ==
    Parsed(ParseModrm(AdvanceEip(s, 1)), LAMBDA s1, m : setRm32(s1, m, getR32(s1, m)))

MovR32Rm32(s) ==
    Parsed(ParseModrm(AdvanceEip(s, 1)),
           LAMBDA s1, m : Try(s1, getRm32(s1, m), LAMBDA rm32 : setR32(s1, m, rm32)))

AddRm32R32(s) ==
    Parsed(ParseModrm(AdvanceEip(s, 1)),
           LAMBDA s1, m : Try(s1, getRm32(s1, m),
                              LAMBDA rm32 : setRm32(s1, m, Add32(getR32(s1, m), rm32))))

\* The three sub-operations of opcode 0x83 start after ParseModrm, with Eip at the
\* immediate byte.
AddRm32Imm8(s, m) ==
    Try(s, getRm32(s, m),
        LAMBDA rm32 : Try(s, GetSignCode8(s, 0),
                          LAMBDA imm8 : setRm32(AdvanceEip(s, 1), m,
                                                Add32(rm32, U32OfInt(imm8)))))

\* imm8 := uint32(e.GetSignCode8(0)); result := uint64(rm32) - uint64(imm8)
CmpRm32Imm8(s, m) ==
    Try(s, getRm32(s, m),
        LAMBDA rm32 : Try(s, GetSignCode8(s, 0),
                          LAMBDA imm8 : updateEflagsSub(
                                            AdvanceEip(s, 1), rm32, U32OfInt(imm8),
                                            Sub64(U64(rm32), U64(U32OfInt(imm8))))))

\* imm8 := e.GetSignCode8(0); result := uint64(rm32) - uint64(imm8)
SubRm32Imm8(s, m) ==
    Try(s, getRm32(s, m),
        LAMBDA rm32 : Try(s, GetSignCode8(s, 0),
                          LAMBDA imm8 : Bind(Sub64(U64(rm32), U64OfInt(imm8)),
                                             LAMBDA result :
                                                 Then(setRm32(AdvanceEip(s, 1), m, Lo32(result)),
                                                      LAMBDA s1 : updateEflagsSub(
                                                                      s1, rm32, U32OfInt(imm8),
                                                                      result)))))

Code83(s) ==
    Parsed(ParseModrm(AdvanceEip(s, 1)),
           LAMBDA s1, m : IF m.Reg = 0 THEN AddRm32Imm8(s1, m)
                          ELSE IF m.Reg = 5 THEN SubRm32Imm8(s1, m)
                          ELSE IF m.Reg = 7 THEN CmpRm32Imm8(s1, m)
                          ELSE Exit(s1))

IncRm32(s, m) ==
    Try(s, getRm32(s, m), LAMBDA value : setRm32(s, m, Add32(value, U32(1))))

CodeFF(s) ==
    Parsed(ParseModrm(AdvanceEip(s, 1)),
           LAMBDA s1, m : IF m.Reg = 0 THEN IncRm32(s1, m) ELSE Exit(s1))

\* push32 with the store at the stack pointer as it was, before the decrement.
push32StoreFirst(s, value) ==
    Bind(getRegister32(s, CEsp),
         LAMBDA address : setMemory32(setRegister32(s, CEsp, Sub32(address, U32(4))),
                                      address, value))

push32(s, value) ==
    Bind(Sub32(getRegister32(s, CEsp), U32(4)),
         LAMBDA address : setMemory32(setRegister32(s, CEsp, address), address, value))

\* pop32 gives the state it leaves and the value it returns.
pop32(s) ==
    Bind(getMemory32(s, getRegister32(s, CEsp)),
         LAMBDA ret : IF ret.st # "running" THEN [s |-> Stop(s, ret.st), val |-> Zero32]
                      ELSE [s |-> setRegister32(s, CEsp, Add32(getRegister32(s, CEsp), U32(4))),
                            val |-> ret.val])

\* The statements F(s, v) that follow v := e.pop32(), which gave p.
Popped(p, F(_, _)) == IF p.s.status # "running" THEN p.s ELSE F(p.s, p.val)

PushR32(s) ==
    Then(push32(s, getRegister32(s, OpcodeReg(s, 80))), LAMBDA s1 : AdvanceEip(s1, 1))

popR32(s) ==
    Popped(pop32(s), LAMBDA s1, v : AdvanceEip(setRegister32(s1, OpcodeReg(s, 88), v), 1))

\* CallRel32 pushing the address of the call itself, not of the byte after it.
CallRel32PushesCallSite(s) ==
    Try(s, GetSignCode32(s, 1),
        LAMBDA diff : Then(push32(s, s.Eip), LAMBDA s1 : JumpDiff32(s1, diff, 5)))

CallRel32(s) ==
    Try(s, GetSignCode32(s, 1),
        LAMBDA diff : Then(push32(s, Add32(s.Eip, U32(5))),
                           LAMBDA s1 : JumpDiff32(s1, diff, 5)))

Ret(s) == Popped(pop32(s), LAMBDA s1, v : [s1 EXCEPT !.Eip = v])

Leave(s) ==
    Popped(pop32(setRegister32(s, CEsp, getRegister32(s, CEbp))),
           LAMBDA s1, v : AdvanceEip(setRegister32(s1, CEbp, v), 1))

PushImm32(s) ==
    Try(s, GetCode32(s, 1),
        LAMBDA value : Then(push32(s, value), LAMBDA s1 : AdvanceEip(s1, 5)))

PushImm8(s) ==
    Try(s, GetCode8(s, 1),
        LAMBDA value : Then(push32(s, U32OfByte(value)), LAMBDA s1 : AdvanceEip(s1, 2)))

CmpR32Rm32(s) ==
    Parsed(ParseModrm(AdvanceEip(s, 1)),
           LAMBDA s1, m : Try(s1, getRm32(s1, m),
                              LAMBDA rm32 : updateEflagsSub(
                                                s1, getR32(s1, m), rm32,
                                                Sub64(U64(getR32(s1, m)), U64(rm32)))))

CmpAlImm8(s) ==
    Try(s, GetCode8(s, 1),
        LAMBDA value : AdvanceEip(
                           updateEflagsSub(
                               s, U32OfByte(getRegister8(s, CAl)), U32OfByte(value),
                               Sub64(U64(U32OfByte(getRegister8(s, CAl))), U64(U32OfByte(value)))),
                           2))

CmpEaxImm32(s) ==
    Try(s, GetCode32(s, 1),
        LAMBDA value : AdvanceEip(
                           updateEflagsSub(
                               s, getRegister32(s, CEax), value,
                               Sub64(U64(getRegister32(s, CEax)), U64(value))),
                           5))

\* IncR32 setting the zero and sign flags from its result, as a compare does.
IncR32WithFlags(s) ==
    Bind(Add32(getRegister32(s, OpcodeReg(s, 64)), U32(1)),
         LAMBDA result : setSign(setZero(AdvanceEip(setRegister32(s, OpcodeReg(s, 64), result), 1),
                                         result = Zero32),
                                 Shr31(result) = 1))

IncR32(s) ==
    AdvanceEip(setRegister32(s, OpcodeReg(s, 64),
                             Add32(getRegister32(s, OpcodeReg(s, 64)), U32(1))), 1)

\* The conditional short jumps: the displacement is read only when the predicate
\* holds, and is 0 otherwise.

Js(s) ==
    IF isSign(s)
    THEN Try(s, GetSignCode8(s, 1), LAMBDA diff : JumpDiff8(s, diff, 2))
    ELSE JumpDiff8(s, 0, 2)

Jns(s) ==
    IF ~isSign(s)
    THEN Try(s, GetSignCode8(s, 1), LAMBDA diff : JumpDiff8(s, diff, 2))
    ELSE JumpDiff8(s, 0, 2)

Jc(s) ==
    IF isCarry(s)
    THEN Try(s, GetSignCode8(s, 1), LAMBDA diff : JumpDiff8(s, diff, 2))
    ELSE JumpDiff8(s, 0, 2)

Jnc(s) ==
    IF ~isCarry(s)
    THEN Try(s, GetSignCode8(s, 1), LAMBDA diff : JumpDiff8(s, diff, 2))
    ELSE JumpDiff8(s, 0, 2)

Jz(s) ==
    IF isZero(s)
    THEN Try(s, GetSignCode8(s, 1), LAMBDA diff : JumpDiff8(s, diff, 2))
    ELSE JumpDiff8(s, 0, 2)

Jnz(s) ==
    IF ~isZero(s)
    THEN Try(s, GetSignCode8(s, 1), LAMBDA diff : JumpDiff8(s, diff, 2))
    ELSE JumpDiff8(s, 0, 2)

Jo(s) ==
    IF isOverFlow(s)
    THEN Try(s, GetSignCode8(s, 1), LAMBDA diff : JumpDiff8(s, diff, 2))
    ELSE JumpDiff8(s, 0, 2)

Jno(s) ==
    IF ~isOverFlow(s)
    THEN Try(s, GetSignCode8(s, 1), LAMBDA diff : JumpDiff8(s, diff, 2))
    ELSE JumpDiff8(s, 0, 2)

\* Jl deciding on the sign flag alone.
JlSignOnly(s) ==
    IF isSign(s)
    THEN Try(s, GetSignCode8(s, 1), LAMBDA diff : JumpDiff8(s, diff, 2))
    ELSE JumpDiff8(s, 0, 2)

Jl(s) ==
    IF isSign(s) # isOverFlow(s)
    THEN Try(s, GetSignCode8(s, 1), LAMBDA diff : JumpDiff8(s, diff, 2))
    ELSE JumpDiff8(s, 0, 2)

\* Jle without the zero flag: taken only when sign and overflow differ.
JleStrict(s) ==
    IF isSign(s) # isOverFlow(s)
    THEN Try(s, GetSignCode8(s, 1), LAMBDA diff : JumpDiff8(s, diff, 2))
    ELSE JumpDiff8(s, 0, 2)

Jle(s) ==
    IF isZero(s) \/ isSign(s) # isOverFlow(s)
    THEN Try(s, GetSignCode8(s, 1), LAMBDA diff : JumpDiff8(s, diff, 2))
    ELSE JumpDiff8(s, 0, 2)

\* The console port: IoIn8 reads a from the input source (0 when nothing can be
\* scanned), IoOut8 prints one character per call.
ConsolePort == <<248, 3, 0, 0>>

IoIn8(address, a) == IF address = ConsolePort THEN Lo8(a) ELSE 0

IoOut8(s, address, value) ==
    IF address = ConsolePort THEN [s EXCEPT !.out = Append(@, value)] ELSE s

\* a is the uint32 fmt.Scan reads from the input source.
InAlDx(s, a) ==
    AdvanceEip(
        setRegister8(s, CAl, IoIn8(And32(getRegister32(s, CEdx), <<255, 255, 0, 0>>), a)), 1)

OutDxAl(s) ==
    AdvanceEip(
        IoOut8(s, And32(getRegister32(s, CEdx), <<255, 255, 0, 0>>), getRegister8(s, CAl)), 1)

MovR8Imm8(s) ==
    Parsed(ParseModrm(AdvanceEip(s, 1)),
           LAMBDA s1, m : Try(s1, getRm8(s1, m), LAMBDA rm8 : setR8(s1, m, rm8)))

MovRm8R8(s) ==
    Parsed(ParseModrm(AdvanceEip(s, 1)), LAMBDA s1, m : setRm8(s1, m, getR8(s1, m)))

MovR8Rm8(s) ==
    Parsed(ParseModrm(AdvanceEip(s, 1)),
           LAMBDA s1, m : Try(s1, getRm8(s1, m), LAMBDA rm8 : setR8(s1, m, rm8)))

\* putString hands the bytes of s to the console port one by one.
RECURSIVE putString(_, _)
putString(s, str) ==
    IF str = <<>> THEN s
    ELSE putString(IoOut8(s, ConsolePort, Head(str)), Tail(str))

\* The bytes of a rune below 256 as fmt's %c writes it (UTF-8).
Utf8(c) == IF c < 128 THEN <<c>> ELSE <<192 + (c \div 64), 128 + (c % 64)>>

biosToTerminal == <<30, 34, 32, 36, 31, 35, 33, 37>>

\* Sprintf("\x1b[%d;%dm%c\x1b[0m]", bright, terminalColor, char), '0' = 48.
TeletypeString(bright, terminalColor, char) ==
    <<27, 91, 48 + bright, 59, 48 + (terminalColor \div 10), 48 + (terminalColor % 10), 109>>
    \o Utf8(char) \o <<27, 91, 48, 109, 93>>

\* biosVideoTeletype with the two registers exchanged: the color read from AL and
\* the character from BL.
biosVideoTeletypeSwapped(s) ==
    Bind(BitAnd(getRegister8(s, CAl), 15, 8),
         LAMBDA color : putString(s, TeletypeString(BitAnd(color, 8, 8) \div 8,
                                                    biosToTerminal[BitAnd(color, 7, 8) + 1],
                                                    getRegister8(s, CBl))))

biosVideoTeletype(s) ==
    Bind(BitAnd(getRegister8(s, CBl), 15, 8),
         LAMBDA color : putString(s, TeletypeString(BitAnd(color, 8, 8) \div 8,
                                                    biosToTerminal[BitAnd(color, 7, 8) + 1],
                                                    getRegister8(s, CAl))))

biosVideo(s) == IF getRegister8(s, CAh) = 14 THEN biosVideoTeletype(s) ELSE s

\* Swi taking an unknown vector as an unknown opcode: the program counter forced
\* to 0.
SwiUnknownHalts(s) ==
    Try(s, GetCode8(s, 1),
        LAMBDA intIndex : IF intIndex = 16 THEN biosVideo(AdvanceEip(s, 2))
                          ELSE [s EXCEPT !.Eip = Zero32])

Swi(s) ==
    Try(s, GetCode8(s, 1),
        LAMBDA intIndex : IF intIndex = 16 THEN biosVideo(AdvanceEip(s, 2))
                          ELSE AdvanceEip(s, 2))

----------------------------------------------------------------------------
\* The dispatch and the run loop.

\* The handler executeOpCode's switch selects for an opcode byte.
HandlerOf(opCode) ==
    CASE opCode = 1 -> "AddRm32R32"
      [] opCode = 59 -> "CmpR32Rm32"
      [] opCode = 60 -> "CmpAlImm8"
      [] opCode = 61 -> "CmpEaxImm32"
      [] opCode \in 64..71 -> "IncR32"
      [] opCode \in 80..87 -> "PushR32"
      [] opCode \in 88..95 -> "popR32"
      [] opCode = 104 -> "PushImm32"
      [] opCode = 106 -> "PushImm8"
      [] opCode = 112 -> "Jo"
      [] opCode = 113 -> "Jno"
      [] opCode = 114 -> "Jc"
      [] opCode = 115 -> "Jnc"
      [] opCode = 116 -> "Jz"
      [] opCode = 117 -> "Jnz"
      [] opCode = 120 -> "Js"
      [] opCode = 121 -> "Jns"
      [] opCode = 124 -> "Jl"
      [] opCode = 126 -> "Jle"
      [] opCode = 131 -> "Code83"
      [] opCode = 136 -> "MovRm8R8"
      [] opCode = 137 -> "MovRm32R32"
      [] opCode = 138 -> "MovRm32R32"
      [] opCode = 139 -> "MovR32Rm32"
      [] opCode \in 176..183 -> "MovR8Imm8"
      [] opCode \in 184..191 -> "MovR32Imm32"
      [] opCode = 195 -> "Ret"
      [] opCode = 199 -> "MovRm32Imm32"
      [] opCode = 201 -> "Leave"
      [] opCode = 205 -> "Swi"
      [] opCode = 232 -> "CallRel32"
      [] opCode = 233 -> "NearJump"
      [] opCode = 235 -> "ShortJump"
      [] opCode = 238 -> "OutDxAl"
      [] opCode = 255 -> "CodeFF"
      [] OTHER -> "default"

\* The default case taken as a fatal condition: os.Exit after the report.
NotImplementedFatal(s) == Exit([s EXCEPT !.Eip = Zero32])

\* The default case: report the opcode and force the program counter to 0.
NotImplemented(s) == [s EXCEPT !.Eip = Zero32]

\* The emulator's current state as a record.
Cur ==
    [Registers |-> Registers, Eflags |-> Eflags, Memory |-> Memory, Eip |-> Eip,
     status |-> status, out |-> out]

\* Run's test before the fetch as e.Eip > e.MaxMemorySize.
AtBoundStrict(s) == Lt32(U32(MaxMemorySize), s.Eip)

\* Run's test before the fetch: e.Eip >= e.MaxMemorySize leaves the loop.
AtBound(s) == ~Lt32(s.Eip, U32(MaxMemorySize))

\* Run's test after the instruction: Eip = 0 leaves the loop.
AfterExecute(s) ==
    IF s.status = "running" /\ s.Eip = Zero32 THEN [s EXCEPT !.status = "halted"] ELSE s

\* One iteration of Run's loop: the opcode fetched is one executeOpCode dispatches
\* to handler h, and r is the state h leaves when applied to the current state.
\* The fetch itself, code := e.GetCode8(0), panics outside memory.
Step(h, r) ==
    /\ status = "running"
    /\ ~AtBound(Cur)
    /\ HandlerOf(GetCode8(Cur, 0).val) = h
    /\ Bind(AfterExecute(IF GetCode8(Cur, 0).st # "running" THEN Panic(Cur) ELSE r),
            LAMBDA s : /\ Registers' = s.Registers
                       /\ Eflags' = s.Eflags
                       /\ Memory' = s.Memory
                       /\ Eip' = s.Eip
                       /\ status' = s.status
                       /\ out' = s.out)
    /\ op' = h
    /\ prev' = Cur
    /\ image' = image

\* The iteration that finds Eip >= MaxMemorySize and leaves the loop.
RunBreak ==
    /\ status = "running"
    /\ AtBound(Cur)
    /\ status' = "halted"
    /\ op' = "break"
    /\ prev' = Cur
    /\ UNCHANGED <<Registers, Eflags, Memory, Eip, out, image>>

----------------------------------------------------------------------------
\* The programs the emulator is started on.  Each is the byte sequence of a
\* binary image, loaded at Org; operands range over the sets below.

\* 32-bit operand values: 0, 1, 2, 0x7F, 0x80, 0xFF, 0x12345678, 0x7FFFFFFF,
\* 0x80000000, 0x80000001, 0xFFFFFFFE, 0xFFFFFFFF.
TestWords ==
    {<<0, 0, 0, 0>>, <<1, 0, 0, 0>>, <<2, 0, 0, 0>>, <<\h7F, 0, 0, 0>>,
     <<\h80, 0, 0, 0>>, <<\hFF, 0, 0, 0>>, <<\h78, \h56, \h34, \h12>>,
     <<\hFF, \hFF, \hFF, \h7F>>, <<0, 0, 0, \h80>>, <<1, 0, 0, \h80>>,
     <<\hFE, \hFF, \hFF, \hFF>>, <<\hFF, \hFF, \hFF, \hFF>>}

\* A few of them, where a family has several operands.
FewWords ==
    {<<0, 0, 0, 0>>, <<5, 0, 0, 0>>, <<0, 0, 0, \h80>>, <<\hFF, \hFF, \hFF, \hFF>>}

\* Immediate and displacement bytes: 0, 1, 5, 0x7F, 0x80, 0x81, 0xFE, 0xFF.
TestBytes == {0, 1, 5, \h7F, \h80, \h81, \hFE, \hFF}

\* The ModRM byte with the given fields.
ModRMByte(mod, reg, rm) == mod * 64 + reg * 8 + rm

\* mov r32, imm32
MovImm(r, w) == <<\hB8 + r>> \o w

\* An address of 4 bytes of data behind the longest program.
DataAddr == U32(Org + 40)

\* cmp r32, r/m32 both on registers and on a memory operand (disp32, [ebx+disp8]);
\* cmp eax, imm32; cmp al, imm8.
CmpPrograms ==
    {MovImm(CEax, a) \o MovImm(CEcx, b) \o <<\h3B, ModRMByte(3, CEax, CEcx)>> :
        a \in TestWords, b \in TestWords}
    \cup {<<\hC7, ModRMByte(0, 0, 5)>> \o DataAddr \o b \o MovImm(CEdx, a)
          \o <<\h3B, ModRMByte(0, CEdx, 5)>> \o DataAddr : a \in FewWords, b \in FewWords}
    \cup {MovImm(CEax, a) \o <<\h3D>> \o b : a \in TestWords, b \in TestWords}
    \cup {MovImm(CEax, a) \o <<\h3C, b>> : a \in FewWords, b \in TestBytes}

\* opcode 0x83: add / sub / cmp r/m32, imm8, and an unimplemented sub-opcode, on a
\* register and on a memory operand.
Code83Programs ==
    {MovImm(CEax, a) \o <<\h83, ModRMByte(3, sub, CEax), imm>> :
        a \in TestWords, imm \in TestBytes, sub \in {0, 1, 5, 7}}
    \cup {<<\hC7, ModRMByte(0, 0, 5)>> \o DataAddr \o a
          \o <<\h83, ModRMByte(0, sub, 5)>> \o DataAddr \o <<imm>> :
             a \in FewWords, imm \in {1, \hFF}, sub \in {0, 5, 7}}

\* Addressing with mode 1 (disp8) over every base register, mode 0 and mode 2:
\* mov r32, [base + disp].
AddressingPrograms ==
    {MovImm(rm, r) \o <<\h8B, ModRMByte(1, CEax, rm), d>> :
        rm \in {0, 3, 5, 6, 7}, d \in TestBytes,
        r \in {U32(0), U32(Org), U32(100), U32(130), <<\hFF, \hFF, \hFF, \hFF>>}}
    \cup {MovImm(CEbx, U32(Org)) \o <<\h8B, ModRMByte(mod, CEcx, rm)>> \o d :
             mod \in {0, 1, 2}, rm \in {3, 4}, d \in {<<0, 0, 0, 0, 0>>, <<4, 0, 0, 0, 0>>}}
    \cup {MovImm(CEbx, U32(Org)) \o <<\h8B, ModRMByte(2, CEcx, CEbx)>> \o d :
             d \in {U32(1), <<\hFF, \hFF, \hFF, \hFF>>, <<0, 0, 0, \h80>>}}

\* inc r32 a few times, then a short or a near jump.
Incs(k) == [i \in 1..k |-> \h40]

\* The last family jumps to the last byte of memory, to the memory bound and past it.
JumpPrograms ==
    {Incs(k) \o <<\hEB, d>> : k \in 0..2, d \in TestBytes}
    \cup {Incs(k) \o <<\hE9>> \o d : k \in 0..2, d \in TestWords}
    \cup {<<\hE9>> \o U32(MaxMemorySize - Org - 5 + k) : k \in {-1, 0, 1}}

\* mov eax, imm32 followed by an opcode that has no case.
UnknownOpcodes == {\h00, \h0F, \h90, \hEC, \hF4}

SoftHaltPrograms ==
    {MovImm(CEax, a) \o <<c>> : a \in {<<\h78, \h56, \h34, \h12>>, Zero32}, c \in UnknownOpcodes}

\* Pushes (imm8, imm32, register) and pops.
PushItems ==
    {<<\h6A, b>> : b \in {\h2A, \h80, \hFF}}
    \cup {<<\h68>> \o w : w \in {<<\h78, \h56, \h34, \h12>>, <<\hFF, \hFF, \hFF, \hFF>>}}
    \cup {MovImm(CEsi, <<1, 0, 0, \h80>>) \o <<\h50 + CEsi>>, <<\h50 + CEsp>>}

PopRegs == {CEax, CEbx, CEsp, CEdi}

PushPopPrograms ==
    {p \o <<\h58 + r>> : p \in PushItems, r \in PopRegs}
    \cup {p \o q \o <<\h58 + CEcx, \h58 + r>> : p \in PushItems, q \in PushItems, r \in PopRegs}
    \cup {<<\h6A, b, \h6A, \h2A>> \o p \o <<\h58 + CEax, \h58 + CEcx, \h58 + CEdx>> :
             p \in PushItems, b \in {1, \hFF}}
    \cup {[i \in 1..(2 * k) |-> IF i % 2 = 1 THEN \h6A ELSE i] : k \in 4..6}
    \cup {<<\h58 + r>> : r \in PopRegs}

\* Port output, and the port input opcode.
PortPrograms ==
    {MovImm(CEdx, port) \o MovImm(CEax, a) \o <<c>> :
        port \in {<<\hF8, 3, 0, 0>>, <<\hF8, 3, 1, 0>>, <<\hF9, 3, 0, 0>>, Zero32},
        a \in {<<\h41, \h42, \h43, \h44>>, <<\hFF, 0, 0, 0>>}, c \in {\hEE, \hEC}}

\* Byte moves 0x88, 0x8A and 0xB0..0xB7 on registers holding distinct bytes, and
\* on a memory operand.
RegSetup ==
    MovImm(CEax, <<\h11, \h12, \h13, \h14>>) \o MovImm(CEcx, <<\h21, \h22, \h23, \h24>>)
    \o MovImm(CEdx, <<\h31, \h32, \h33, \h34>>) \o MovImm(CEbx, <<\h41, \h42, \h43, \h44>>)

ByteMovePrograms ==
    {RegSetup \o <<c, ModRMByte(3, reg, rm)>> : c \in {\h88, \h8A}, reg \in 0..7, rm \in 0..7}
    \cup {MovImm(CEsi, <<\h61, \h62, \h63, \h64>>) \o MovImm(CEbp, <<\h51, \h52, \h53, \h54>>)
          \o <<\h88, ModRMByte(3, reg, rm)>> : reg \in 0..7, rm \in 4..7}
    \cup {MovImm(CEax, <<\h11, \h12, \h13, \h14>>) \o MovImm(CEbx, DataAddr)
          \o <<\hC7, ModRMByte(0, 0, CEbx), \hA1, \hA2, \hA3, \hA4>>
          \o <<c, ModRMByte(mod, reg, CEbx)>> \o d :
             c \in {\h88, \h8A}, reg \in {0, 4, 7}, mod \in {0, 1}, d \in {<<0>>, <<1>>}}
    \cup {RegSetup \o <<\hB0 + r, b>> : r \in 0..7, b \in {\hC1, \hD8, \h2A}}

\* cmp eax, imm32 followed by a conditional jump.
JccOpcodes == {\h70, \h71, \h72, \h73, \h74, \h75, \h78, \h79, \h7C, \h7E}

JccPrograms ==
    {MovImm(CEax, a) \o <<\h3D>> \o b \o <<c, d>> :
        a \in FewWords, b \in FewWords, c \in JccOpcodes, d \in {0, 5, \h7F, \h80, \hFD}}

\* add, inc, mov, call / ret, leave, int.
MiscPrograms ==
    {MovImm(CEax, a) \o MovImm(CEcx, b) \o <<\h01, ModRMByte(3, CEax, CEcx)>> :
        a \in FewWords, b \in FewWords}
    \cup {MovImm(CEax, a) \o <<\hFF, ModRMByte(3, sub, CEax)>> : a \in FewWords, sub \in {0, 1}}
    \cup {MovImm(CEax, a) \o <<\h89, ModRMByte(3, CEax, CEdx), \h8B, ModRMByte(3, CEbx, CEdx)>> :
             a \in FewWords}
    \cup {<<\hE8>> \o d \o <<\h40, \hC3>> \o <<\h41, \hC3>> :
             d \in {U32(0), U32(2), <<\hFB, \hFF, \hFF, \hFF>>}}
    \cup {<<\hE8>> \o Neg32(U32(Org + 5)), <<\h6A, 0, \hC3>>, <<\hEB, 2, 0, 0, \hEB, \hFA>>}
    \cup {<<\hE8>> \o d : d \in TestWords}
    \cup {<<\h6A, \h2A>> \o MovImm(CEbp, b) \o <<\hC9>> :
             b \in {U32(Org - 4), U32(0), <<\hFF, \hFF, \hFF, \hFF>>}}
    \cup {MovImm(CEax, <<al, ah, 0, 0>>) \o MovImm(CEbx, <<bl, 0, 0, 0>>) \o <<\hCD, v>> :
             al \in {\h41, \hE9}, ah \in {\h0E, 0}, bl \in {\h0C, \h07, \hF2}, v \in {\h10, \h13}}

\* cmp eax, imm32 followed by an instruction of the other kinds: add, inc, mov,
\* push / pop, call, leave, int, out, jumps.
FlagFrameTails ==
    {<<\h01, ModRMByte(3, CEax, CEax)>>, <<\h83, ModRMByte(3, 0, CEax), \hFF>>,
     <<\h83, ModRMByte(3, 0, CEax), 1>>, <<\h40>>, <<\hFF, ModRMByte(3, 0, CEax)>>,
     <<\h50, \h58 + CEcx>>, <<\h6A, 1>>, <<\h89, ModRMByte(3, CEax, CEdx)>>,
     <<\h88, ModRMByte(3, CAl, CAh)>>, <<\hB0, \hC0>>, <<\hB9, 1, 2, 3, 4>>,
     <<\hE8, 0, 0, 0, 0>>, <<\hC9>>, <<\hCD, \h10>>, <<\hEE>>, <<\hEB, 0>>,
     <<\hE9, 0, 0, 0, 0>>, <<\h90>>}

FlagFramePrograms ==
    {MovImm(CEax, a) \o <<\h3D>> \o b \o tl : a \in FewWords, b \in FewWords, tl \in FlagFrameTails}

\* mov eax, imm32; int v; inc eax, for vectors and functions with and without a
\* service.
SwiThenIncPrograms ==
    {MovImm(CEax, <<\h41, ah, 0, 0>>) \o <<\hCD, v, \h40>> :
        ah \in {\h0E, 0, \h0F}, v \in {\h10, \h13, 0, \hFF}}

\* mov eax, 0x12345678 followed by an instruction that needs a SIB byte, or by
\* opcode 0x83 or 0xFF with each sub-opcode, on a register and on memory.
FatalPrograms ==
    {MovImm(CEax, <<\h78, \h56, \h34, \h12>>)
     \o <<c, ModRMByte(mod, reg, 4), \h24, 1, 0, 0, 0, 2, 0, 0, 0>> :
        c \in {\h01, \h3B, \h83, \h88, \h89, \h8A, \h8B, \hB0, \hC7, \hFF},
        mod \in 0..2, reg \in {0, 3, 5, 7}}
    \cup {MovImm(CEax, <<\h78, \h56, \h34, \h12>>) \o <<c, ModRMByte(mod, sub, CEax), 1>> :
             c \in {\h83, \hFF}, mod \in {0, 3}, sub \in 0..7}

\* mov eax, a; mov ecx, b; cmp eax, ecx; jl / jle / jc / jz +5.
CmpJccPrograms ==
    {MovImm(CEax, a) \o MovImm(CEcx, b) \o <<\h3B, ModRMByte(3, CEax, CEcx), c, 5>> :
        a \in TestWords, b \in TestWords, c \in {\h7C, \h7E, \h72, \h74}}

Programs ==
    CmpPrograms \cup Code83Programs \cup AddressingPrograms \cup JumpPrograms
    \cup SoftHaltPrograms \cup PushPopPrograms \cup PortPrograms \cup ByteMovePrograms
    \cup JccPrograms \cup MiscPrograms \cup FlagFramePrograms \cup SwiThenIncPrograms
    \cup FatalPrograms \cup CmpJccPrograms

\* The memory image with the program img loaded at Org, zero elsewhere.
Load(img) ==
    [a \in 0..(MaxMemorySize - 1) |->
        IF a >= Org /\ a < Org + Len(img) THEN img[a - Org + 1] ELSE 0]

\* The state after construction: registers 0 but for the stack pointer, flags 0.
Init ==
    \E img \in Programs :
        /\ image = img
        /\ Registers = [r \in 0..(RegistersCount - 1) |-> IF r = CEsp THEN U32(Org) ELSE Zero32]
        /\ Eflags = Zero32
        /\ Memory = Load(img)
        /\ Eip = U32(Org)
        /\ status = "running"
        /\ out = <<>>
        /\ op = "init"
        /\ prev = [Registers |-> Registers, Eflags |-> Eflags, Memory |-> Memory,
                   Eip |-> Eip, status |-> status, out |-> out]

DoAddRm32R32 == Step("AddRm32R32", AddRm32R32(Cur))
DoCmpR32Rm32 == Step("CmpR32Rm32", CmpR32Rm32(Cur))
DoCmpAlImm8 == Step("CmpAlImm8", CmpAlImm8(Cur))
DoCmpEaxImm32 == Step("CmpEaxImm32", CmpEaxImm32(Cur))
DoIncR32 == Step("IncR32", IncR32(Cur))
DoPushR32 == Step("PushR32", PushR32(Cur))
DoPopR32 == Step("popR32", popR32(Cur))
DoPushImm32 == Step("PushImm32", PushImm32(Cur))
DoPushImm8 == Step("PushImm8", PushImm8(Cur))
DoJo == Step("Jo", Jo(Cur))
DoJno == Step("Jno", Jno(Cur))
DoJc == Step("Jc", Jc(Cur))
DoJnc == Step("Jnc", Jnc(Cur))
DoJz == Step("Jz", Jz(Cur))
DoJnz == Step("Jnz", Jnz(Cur))
DoJs == Step("Js", Js(Cur))
DoJns == Step("Jns", Jns(Cur))
DoJl == Step("Jl", Jl(Cur))
DoJle == Step("Jle", Jle(Cur))
DoCode83 == Step("Code83", Code83(Cur))
DoMovRm8R8 == Step("MovRm8R8", MovRm8R8(Cur))
DoMovRm32R32 == Step("MovRm32R32", MovRm32R32(Cur))
DoMovR32Rm32 == Step("MovR32Rm32", MovR32Rm32(Cur))
DoMovR8Imm8 == Step("MovR8Imm8", MovR8Imm8(Cur))
DoMovR32Imm32 == Step("MovR32Imm32", MovR32Imm32(Cur))
DoRet == Step("Ret", Ret(Cur))
DoMovRm32Imm32 == Step("MovRm32Imm32", MovRm32Imm32(Cur))
DoLeave == Step("Leave", Leave(Cur))
DoSwi == Step("Swi", Swi(Cur))
DoCallRel32 == Step("CallRel32", CallRel32(Cur))
DoNearJump == Step("NearJump", NearJump(Cur))
DoShortJump == Step("ShortJump", ShortJump(Cur))
DoOutDxAl == Step("OutDxAl", OutDxAl(Cur))
DoCodeFF == Step("CodeFF", CodeFF(Cur))
DoNotImplemented == Step("default", NotImplemented(Cur))

\* The dispatch: the handler of the opcode at Eip runs.
executeOpCode ==
    \/ DoAddRm32R32 \/ DoCmpR32Rm32 \/ DoCmpAlImm8 \/ DoCmpEaxImm32 \/ DoIncR32
    \/ DoPushR32 \/ DoPopR32 \/ DoPushImm32 \/ DoPushImm8
    \/ DoJo \/ DoJno \/ DoJc \/ DoJnc \/ DoJz \/ DoJnz \/ DoJs \/ DoJns \/ DoJl \/ DoJle
    \/ DoCode83 \/ DoMovRm8R8 \/ DoMovRm32R32 \/ DoMovR32Rm32 \/ DoMovR8Imm8
    \/ DoMovR32Imm32 \/ DoRet \/ DoMovRm32Imm32 \/ DoLeave \/ DoSwi
    \/ DoCallRel32 \/ DoNearJump \/ DoShortJump \/ DoOutDxAl \/ DoCodeFF
    \/ DoNotImplemented

Next == RunBreak \/ executeOpCode

Spec == Init /\ [][Next]_vars

----------------------------------------------------------------------------
\* Properties.  prev is the state an instruction started in, op the handler the
\* dispatcher chose for it, and the unprimed variables the state it left.

\* An instruction has been executed to its end.
Completed == op \notin {"init", "break"} /\ status \in {"running", "halted"}

\* The byte at offset i of the instruction that starts at s.Eip.
CodeAt(s, i) == s.Memory[Idx(s.Eip) + i]
\* The four bytes at offset i, a little-endian word.
WordAt(s, i) == <<CodeAt(s, i), CodeAt(s, i + 1), CodeAt(s, i + 2), CodeAt(s, i + 3)>>

\* The fields of a ModRM byte.
ModOf(b) == b \div 64
RegOf(b) == (b \div 8) % 8
RmOf(b) == b % 8

\* The byte b sign-extended to 32 bits.
Sext8(b) == IF b < 128 THEN <<b, 0, 0, 0>> ELSE <<b, 255, 255, 255>>
\* Bit 31 of a word.
Bit31(w) == w[4] >= 128

\* The r/m32 operand of the instruction that starts at s.Eip, read in state s.
Operand32(s) == Bind(ParseModrm(AdvanceEip(s, 1)), LAMBDA p : getRm32(p.s, p.m).val)
\* The same operand as it is in the current state.
Operand32Now ==
    Bind(ParseModrm(AdvanceEip(prev, 1)),
         LAMBDA p : getRm32([p.s EXCEPT !.Registers = Registers, !.Memory = Memory], p.m).val)
\* The byte that follows the addressing bytes of the instruction at s.Eip.
Imm8After(s) == Bind(ParseModrm(AdvanceEip(s, 1)), LAMBDA p : GetCode8(p.s, 0).val)

\* The four flags of the current state.
FlagCarry == Eflags[1] % 2 = 1
FlagZero == (Eflags[1] \div 64) % 2 = 1
FlagSign == Eflags[1] \div 128 = 1
FlagOverflow == (Eflags[2] \div 8) % 2 = 1

\* The shared subtraction rule on the 32-bit operands a and b.
SubFlagsAre(a, b) ==
    /\ FlagCarry <=> Lt32(a, b)
    /\ FlagZero <=> (a = b)
    /\ FlagSign <=> Bit31(Sub32(a, b))
    /\ FlagOverflow <=> (Bit31(a) # Bit31(b) /\ Bit31(Sub32(a, b)) # Bit31(a))

\* C1: after CmpR32Rm32 and CmpEaxImm32 on operands a (the register) and b (the
\* r/m operand or the immediate), carry is set exactly when a < b unsigned, zero
\* exactly when a = b, sign is bit 31 of a - b, overflow is set exactly when a and
\* b differ in sign and a - b differs in sign from a; no register and no memory
\* cell is changed.
C1_CompareFlags ==
    /\ (op = "CmpR32Rm32" /\ Completed) =>
           /\ SubFlagsAre(prev.Registers[RegOf(CodeAt(prev, 1))], Operand32(prev))
           /\ Registers = prev.Registers
           /\ Memory = prev.Memory
    /\ (op = "CmpEaxImm32" /\ Completed) =>
           /\ SubFlagsAre(prev.Registers[CEax], WordAt(prev, 1))
           /\ Registers = prev.Registers
           /\ Memory = prev.Memory

\* A compare of 0x7FFFFFFF with 0x80000000: carry, sign and overflow set, zero clear.
C1_CompareReached ==
    /\ op = "CmpR32Rm32"
    /\ status = "running"
    /\ prev.Registers[CEax] = <<255, 255, 255, 127>>
    /\ Operand32(prev) = <<0, 0, 0, 128>>
    /\ FlagCarry /\ FlagSign /\ FlagOverflow /\ ~FlagZero

\* C2: SubRm32Imm8 (opcode 0x83, sub-opcode 5) on the r/m32 operand a and the
\* sign-extended immediate b stores a - b mod 2^32 in the operand and sets the four
\* flags by the shared rule on a and b, the flags CmpRm32Imm8 leaves on the same
\* a and b.
C2_SubImm8Flags ==
    (op = "Code83" /\ Completed /\ RegOf(CodeAt(prev, 1)) = 5) =>
        /\ Operand32Now = Sub32(Operand32(prev), Sext8(Imm8After(prev)))
        /\ SubFlagsAre(Operand32(prev), Sext8(Imm8After(prev)))
        /\ Eflags = Bind(ParseModrm(AdvanceEip(prev, 1)),
                         LAMBDA p : CmpRm32Imm8(p.s, p.m).Eflags)

\* The handlers that resolve a ModRM descriptor.
ModrmHandlers ==
    {"MovRm32Imm32", "MovRm32R32", "MovR32Rm32", "AddRm32R32", "CmpR32Rm32", "Code83",
     "CodeFF", "MovRm8R8", "MovR8Imm8"}

\* C3: for a descriptor with mode 1 and r/m other than 4, calcMemoryAddress gives
\* the base register plus the displacement byte sign-extended, mod 2^32, for every
\* displacement byte 0x00..0xFF.
C3_Disp8Address ==
    (op \in ModrmHandlers /\ ModOf(CodeAt(prev, 1)) = 1 /\ RmOf(CodeAt(prev, 1)) # 4) =>
        Bind(ParseModrm(AdvanceEip(prev, 1)),
             LAMBDA p : p.s.status = "running" =>
                            calcMemoryAddress(p.s, p.m)
                            = Ok(Add32(prev.Registers[RmOf(CodeAt(prev, 1))],
                                       Sext8(CodeAt(prev, 2)))))

\* C4: a completed ShortJump at p with displacement byte d leaves
\* Eip = p + 2 + signext8(d) mod 2^32, a completed NearJump with the 4-byte
\* displacement d leaves Eip = p + 5 + d mod 2^32, for every displacement (0x80 and
\* 0x80000000 included); neither changes a register, a flag or memory.  At 0x7c00
\* a displacement of 5 gives 0x7c07 and one of -2 gives 0x7c00.
C4_JumpTargets ==
    /\ (op = "ShortJump" /\ Completed) =>
           /\ Eip = Add32(Add32(prev.Eip, U32(2)), Sext8(CodeAt(prev, 1)))
           /\ Registers = prev.Registers /\ Eflags = prev.Eflags /\ Memory = prev.Memory
    /\ (op = "NearJump" /\ Completed) =>
           /\ Eip = Add32(Add32(prev.Eip, U32(5)), WordAt(prev, 1))
           /\ Registers = prev.Registers /\ Eflags = prev.Eflags /\ Memory = prev.Memory
    /\ JumpDiff8([Eip |-> <<0, \h7C, 0, 0>>], 5, 2).Eip = <<7, \h7C, 0, 0>>
    /\ JumpDiff8([Eip |-> <<0, \h7C, 0, 0>>], -2, 2).Eip = <<0, \h7C, 0, 0>>

\* A short jump with displacement 0xFE, which jumps to itself.
C4_JumpToSelfReached ==
    /\ op = "ShortJump"
    /\ status = "running"
    /\ CodeAt(prev, 1) = \hFE
    /\ Eip = prev.Eip

\* C5: an opcode with no case sets Eip to 0, changes no register, flag or memory
\* cell, and the run loop ends in that iteration as a normal halt; a program of
\* mov eax, 0x12345678 followed by such an opcode halts with EAX = 0x12345678 and
\* Eip = 0.
C5_SoftHalt ==
    /\ op = "default" =>
           /\ Eip = Zero32
           /\ status = "halted"
           /\ Registers = prev.Registers /\ Eflags = prev.Eflags /\ Memory = prev.Memory
    /\ \A c \in UnknownOpcodes :
           image = MovImm(CEax, <<\h78, \h56, \h34, \h12>>) \o <<c>> =>
               /\ status \in {"running", "halted"}
               /\ status = "halted" =>
                      /\ op = "default"
                      /\ Registers[CEax] = <<\h78, \h56, \h34, \h12>>
                      /\ Eip = Zero32

\* The program mov eax, 0x12345678; 0x0F has halted.
C5_SoftHaltReached ==
    /\ op = "default"
    /\ status = "halted"
    /\ prev.Eip = U32(Org + 5)
    /\ CodeAt(prev, 0) = \h0F
    /\ Registers[CEax] = <<\h78, \h56, \h34, \h12>>

\* The value a push instruction pushes: the register's, the immediate word, or
\* the immediate byte as a 32-bit value.
PushedValue ==
    IF op = "PushR32" THEN prev.Registers[CodeAt(prev, 0) - \h50]
    ELSE IF op = "PushImm32" THEN WordAt(prev, 1)
    ELSE <<CodeAt(prev, 1), 0, 0, 0>>

\* The word stored little-endian at address a of memory M.
WordIn(M, a) == <<M[a], M[a + 1], M[a + 2], M[a + 3]>>

\* The leading immediate pushes (0x6A ib, 0x68 id) of the image img from index i:
\* the values pushed and the index behind the last push.
RECURSIVE LeadingPushes(_, _, _)
LeadingPushes(img, i, vals) ==
    IF i + 1 <= Len(img) /\ img[i] = \h6A
    THEN LeadingPushes(img, i + 2, Append(vals, <<img[i + 1], 0, 0, 0>>))
    ELSE IF i + 4 <= Len(img) /\ img[i] = \h68
    THEN LeadingPushes(img, i + 5,
                       Append(vals, <<img[i + 1], img[i + 2], img[i + 3], img[i + 4]>>))
    ELSE [vals |-> vals, next |-> i]

\* The image is n >= 1 immediate pushes followed by n pops into registers other
\* than the stack pointer.
IsPushPopImage(img) ==
    Bind(LeadingPushes(img, 1, <<>>),
         LAMBDA l : /\ Len(l.vals) >= 1
                    /\ Len(img) = l.next - 1 + Len(l.vals)
                    /\ \A j \in l.next..Len(img) :
                           img[j] \in \h58..\h5F /\ img[j] # \h58 + CEsp)

\* C6: a completed push leaves the stack pointer 4 lower and the pushed value
\* little-endian at the new stack pointer, nothing else changed; a completed pop
\* gives the register the word at the stack pointer and raises the stack pointer
\* by 4 (the popped value wins when the register is the stack pointer).  In a
\* program of n pushes and then n pops into registers other than the stack
\* pointer, the k-th pop returns the value of the (n - k + 1)-th push and the last
\* pop leaves the stack pointer as it was before the first push.
C6_StackDiscipline ==
    /\ (op \in {"PushR32", "PushImm32", "PushImm8"} /\ Completed) =>
           /\ Registers = [prev.Registers EXCEPT ![CEsp] = Sub32(@, U32(4))]
           /\ WordIn(Memory, Idx(Registers[CEsp])) = PushedValue
           /\ \A a \in 0..(MaxMemorySize - 1) :
                  a - Idx(Registers[CEsp]) \notin 0..3 => Memory[a] = prev.Memory[a]
           /\ Eflags = prev.Eflags
    /\ (op = "popR32" /\ Completed) =>
           /\ Registers = [[prev.Registers EXCEPT ![CEsp] = Add32(@, U32(4))]
                              EXCEPT ![CodeAt(prev, 0) - \h58] =
                                         WordIn(prev.Memory, Idx(prev.Registers[CEsp]))]
           /\ Memory = prev.Memory
           /\ Eflags = prev.Eflags
    /\ (op = "popR32" /\ Completed /\ IsPushPopImage(image)) =>
           Bind(LeadingPushes(image, 1, <<>>),
                LAMBDA l : /\ Registers[CodeAt(prev, 0) - \h58]
                              = l.vals[Len(image) - (Idx(prev.Eip) - Org)]
                           /\ Idx(Eip) - Org = Len(image) => Registers[CEsp] = U32(Org))

\* push 0x2A (8-bit form), then pop ebx: EBX = 0x2A and the stack pointer is back.
C6_PushPopReached ==
    /\ image = <<\h6A, \h2A, \h58 + CEbx>>
    /\ op = "popR32"
    /\ status = "running"
    /\ Registers[CEbx] = <<\h2A, 0, 0, 0>>
    /\ Registers[CEsp] = U32(Org)

\* The handlers executeOpCode dispatches to, the default case included.
Handlers ==
    {"AddRm32R32", "CmpR32Rm32", "CmpAlImm8", "CmpEaxImm32", "IncR32", "PushR32", "popR32",
     "PushImm32", "PushImm8", "Jo", "Jno", "Jc", "Jnc", "Jz", "Jnz", "Js", "Jns", "Jl", "Jle",
     "Code83", "MovRm8R8", "MovRm32R32", "MovR32Rm32", "MovR8Imm8", "MovR32Imm32", "Ret",
     "MovRm32Imm32", "Leave", "Swi", "CallRel32", "NearJump", "ShortJump", "OutDxAl",
     "CodeFF", "default"}

\* C7: an opcode is fetched only at a program counter below the memory bound;
\* the loop is left exactly (1) before a fetch with the program counter at or
\* above the bound, the state unchanged, and (2) after an instruction that leaves
\* the program counter 0; in every other state of the loop exactly one
\* instruction, the one at the program counter, is executed next.
C7_RunLoopHalting ==
    /\ op \notin {"init", "break"} =>
           /\ prev.status = "running"
           /\ Lt32(prev.Eip, U32(MaxMemorySize))
           /\ op = HandlerOf(CodeAt(prev, 0))
           /\ status \in {"running", "halted"} => (status = "halted" <=> Eip = Zero32)
    /\ op = "break" =>
           /\ prev.status = "running"
           /\ ~Lt32(prev.Eip, U32(MaxMemorySize))
           /\ status = "halted"
           /\ Cur = [prev EXCEPT !.status = "halted"]
    /\ op = "init" => status = "running"
    /\ status = "running" =>
           /\ ENABLED RunBreak <=> ~Lt32(Eip, U32(MaxMemorySize))
           /\ Lt32(Eip, U32(MaxMemorySize)) => HandlerOf(CodeAt(Cur, 0)) \in Handlers
    /\ status # "running" => ~ENABLED Next

\* The loop left before a fetch with the program counter exactly at the bound.
C7_StoppedAtBoundReached ==
    /\ op = "break"
    /\ status = "halted"
    /\ Eip = U32(MaxMemorySize)

\* The port an I/O instruction names: the low 16 bits of EDX.
PortOf(s) == <<s.Registers[CEdx][1], s.Registers[CEdx][2], 0, 0>>

\* C8: the instruction with opcode 0xEC gives the accumulator's low byte the byte
\* of the input source (0 for a port other than 0x03F8), changes nothing else and
\* advances the program counter by 1; the one with opcode 0xEE hands the
\* accumulator's low byte to the output sink (nothing for a port other than
\* 0x03F8), changes no register, flag or memory cell and advances the program
\* counter by 1; neither halts the machine.
C8_PortInstructions ==
    /\ (op \notin {"init", "break"} /\ CodeAt(prev, 0) = \hEC) =>
           /\ status = "running"
           /\ Eip = Add32(prev.Eip, U32(1))
           /\ \E v \in 0..255 :
                  /\ Registers = [prev.Registers EXCEPT ![CEax] = <<v, @[2], @[3], @[4]>>]
                  /\ PortOf(prev) # <<\hF8, 3, 0, 0>> => v = 0
           /\ Eflags = prev.Eflags
           /\ Memory = prev.Memory
    /\ (op \notin {"init", "break"} /\ CodeAt(prev, 0) = \hEE) =>
           /\ status = "running"
           /\ Eip = Add32(prev.Eip, U32(1))
           /\ Registers = prev.Registers
           /\ Eflags = prev.Eflags
           /\ Memory = prev.Memory
           /\ out = IF PortOf(prev) = <<\hF8, 3, 0, 0>>
                    THEN Append(prev.out, prev.Registers[CEax][1])
                    ELSE prev.out

\* The byte register i of the register file R, and R with that byte set to v.
ByteGet(R, i) == IF i < 4 THEN R[i][1] ELSE R[i - 4][2]
ByteSet(R, i, v) ==
    IF i < 4 THEN [R EXCEPT ![i] = <<v, @[2], @[3], @[4]>>]
    ELSE [R EXCEPT ![i - 4] = <<@[1], v, @[3], @[4]>>]

\* The r/m8 operand of the descriptor m in state s, and the memory cell it names.
Rm8Address(s, m) == Idx(calcMemoryAddress(s, m).val)
Rm8Value(s, m) ==
    IF m.Mod = 3 THEN ByteGet(s.Registers, m.Rm) ELSE s.Memory[Rm8Address(s, m)]

\* C9: the instruction with opcode 0x88 copies the byte register of the reg field
\* into the r/m8 operand; the one with opcode 0x8A copies the r/m8 operand into the
\* byte register of the reg field; only the 8 bits written change, the flags and
\* every other register bit and memory byte stay, and the program counter advances
\* by 1 + the addressing bytes.
C9_ByteMoves ==
    /\ (op \notin {"init", "break"} /\ CodeAt(prev, 0) = \h88 /\ Completed) =>
           Bind(ParseModrm(AdvanceEip(prev, 1)),
                LAMBDA p :
                    /\ Eip = p.s.Eip
                    /\ Eflags = prev.Eflags
                    /\ IF p.m.Mod = 3
                       THEN /\ Registers = ByteSet(prev.Registers, p.m.Rm,
                                                   ByteGet(prev.Registers, p.m.Reg))
                            /\ Memory = prev.Memory
                       ELSE /\ Registers = prev.Registers
                            /\ Memory = [prev.Memory EXCEPT ![Rm8Address(p.s, p.m)] =
                                             ByteGet(prev.Registers, p.m.Reg)])
    /\ (op \notin {"init", "break"} /\ CodeAt(prev, 0) = \h8A /\ Completed) =>
           Bind(ParseModrm(AdvanceEip(prev, 1)),
                LAMBDA p :
                    /\ Eip = p.s.Eip
                    /\ Eflags = prev.Eflags
                    /\ Memory = prev.Memory
                    /\ Registers = ByteSet(prev.Registers, p.m.Reg, Rm8Value(p.s, p.m)))

\* C10: in every state, for every byte-register index i and byte v, setRegister8
\* changes only bits 0..7 of register i (i < 4) or bits 8..15 of register i - 4
\* (i >= 4), leaves registers 4..7, the flags and memory as they are, and
\* getRegister8(i) then gives v; so does the register-to-register byte move that
\* calls it.
C10_ByteRegisterAliasing ==
    /\ status = "running" =>
           \A i \in 0..7, v \in TestBytes :
               Bind(setRegister8(Cur, i, v),
                    LAMBDA s : /\ s.Registers = ByteSet(Registers, i, v)
                               /\ \A r \in 4..7 : s.Registers[r] = Registers[r]
                               /\ s.Eflags = Eflags
                               /\ s.Memory = Memory
                               /\ getRegister8(s, i) = v)
    /\ (op = "MovRm8R8" /\ Completed /\ ModOf(CodeAt(prev, 1)) = 3) =>
           /\ Registers = ByteSet(prev.Registers, RmOf(CodeAt(prev, 1)),
                                  ByteGet(prev.Registers, RegOf(CodeAt(prev, 1))))
           /\ \A r \in 4..7 : Registers[r] = prev.Registers[r]
           /\ Eflags = prev.Eflags
           /\ Memory = prev.Memory
           /\ getRegister8(Cur, RmOf(CodeAt(prev, 1)))
              = ByteGet(prev.Registers, RegOf(CodeAt(prev, 1)))

\* mov ch, al on EAX = 0x14131211, ECX = 0x24232221: ECX = 0x24231121.
C10_HighByteSetReached ==
    /\ op = "MovRm8R8"
    /\ status = "running"
    /\ CodeAt(prev, 1) = ModRMByte(3, CAl, CEcx + 4)
    /\ prev.Registers[CEcx] = <<\h21, \h22, \h23, \h24>>
    /\ Registers[CEcx] = <<\h21, \h11, \h23, \h24>>

\* 32-bit values with telling bytes: 0, 0xFF, 0x12345678, 0x80000000, 0xFFFFFFFF.
RoundTripWords ==
    {<<0, 0, 0, 0>>, <<\hFF, 0, 0, 0>>, <<\h78, \h56, \h34, \h12>>, <<0, 0, 0, \h80>>,
     <<\hFF, \hFF, \hFF, \hFF>>}

\* C11: for every offset a with a + 3 inside memory and every 32-bit value v,
\* setMemory32(a, v) followed by getMemory32(a) gives v, the byte at a + i is bits
\* 8i..8i+7 of v, and no byte outside a..a+3 (and no register or flag) changes;
\* checked on the memory the programs of MiscPrograms are loaded in and on every
\* completed mov r/m32, imm32 with a memory operand.
C11_Memory32RoundTrip ==
    /\ (op = "init" /\ image \in MiscPrograms) =>
           \A a \in 0..(MaxMemorySize - 4), v \in RoundTripWords :
               Bind(setMemory32(Cur, U32(a), v),
                    LAMBDA s : /\ s.status = "running"
                               /\ getMemory32(s, U32(a)) = Ok(v)
                               /\ \A i \in 0..3 : s.Memory[a + i] = v[i + 1]
                               /\ \A b \in 0..(MaxMemorySize - 1) :
                                      b - a \notin 0..3 => s.Memory[b] = Memory[b]
                               /\ s.Registers = Registers
                               /\ s.Eflags = Eflags)
    /\ (op = "MovRm32Imm32" /\ Completed /\ ModOf(CodeAt(prev, 1)) # 3) =>
           Bind(ParseModrm(AdvanceEip(prev, 1)),
                LAMBDA p :
                    /\ getMemory32(Cur, calcMemoryAddress(p.s, p.m).val) = Ok(WordAt(p.s, 0))
                    /\ WordIn(Memory, Rm8Address(p.s, p.m)) = WordAt(p.s, 0)
                    /\ \A b \in 0..(MaxMemorySize - 1) :
                           b - Rm8Address(p.s, p.m) \notin 0..3 => Memory[b] = prev.Memory[b]
                    /\ Registers = prev.Registers)

\* mov dword [ebx], 0xA4A3A2A1 has stored A1 A2 A3 A4 at the data address.
C11_WordStoredReached ==
    /\ op = "MovRm32Imm32"
    /\ status = "running"
    /\ WordIn(prev.Memory, Org + 40) = <<0, 0, 0, 0>>
    /\ WordIn(Memory, Org + 40) = <<\hA1, \hA2, \hA3, \hA4>>
    /\ getMemory32(Cur, DataAddr) = Ok(<<\hA1, \hA2, \hA3, \hA4>>)

\* The color identifiers of the lookup table, by color number 0..7: black, blue,
\* green, cyan, red, magenta, yellow, white, as the last digit of the terminal's
\* foreground code 30..37.
\* Red is identifier 1.
ColorId == <<0, 4, 2, 6, 1, 5, 3, 7>>

\* The bytes handed to the console port for the triple (character c, color
\* identifier id, brightness b): ESC [ b ; 3 id m c ESC [ 0 m ].
TripleBytes(c, id, b) ==
    <<27, 91, 48 + b, 59, 51, 48 + id, 109>>
    \o (IF c < 128 THEN <<c>> ELSE <<192 + (c \div 64), 128 + (c % 64)>>)
    \o <<27, 91, 48, 109, 93>>

\* C12: the software interrupt with vector 0x10 and AH = 0x0E hands off exactly
\* one triple: the character AL, the color identifier the table gives for bits
\* 0..2 of BL, the brightness bit 3 of BL (AL = 0x41, BL = 0x0C: 'A', red, 1); no
\* register, flag or memory cell changes and the program counter ends 2 past the
\* opcode.
C12_Teletype ==
    (op = "Swi" /\ Completed /\ CodeAt(prev, 1) = \h10 /\ prev.Registers[CEax][2] = \h0E) =>
        /\ out = prev.out \o TripleBytes(prev.Registers[CEax][1],
                                         ColorId[(prev.Registers[CEbx][1] % 8) + 1],
                                         (prev.Registers[CEbx][1] \div 8) % 2)
        /\ (prev.Registers[CEax][1] = \h41 /\ prev.Registers[CEbx][1] = \h0C) =>
               out = prev.out \o TripleBytes(65, 1, 1)
        /\ Registers = prev.Registers
        /\ Eflags = prev.Eflags
        /\ Memory = prev.Memory
        /\ Eip = Add32(prev.Eip, U32(2))

\* int 0x10 with AH = 0x0E, AL = 'A', BL = 0x0C has written the bright red 'A'.
C12_TeletypeReached ==
    /\ op = "Swi"
    /\ status = "running"
    /\ CodeAt(prev, 1) = \h10
    /\ Registers[CEax] = <<\h41, \h0E, 0, 0>>
    /\ Registers[CEbx] = <<\h0C, 0, 0, 0>>
    /\ out = <<27, 91, 49, 59, 51, 49, 109, 65, 27, 91, 48, 109, 93>>

\* The four flags of the flags word f.
CarryIn(f) == f[1] % 2 = 1
ZeroIn(f) == (f[1] \div 64) % 2 = 1
SignIn(f) == f[1] \div 128 = 1
OverflowIn(f) == (f[2] \div 8) % 2 = 1

\* The predicate of the conditional jump with opcode c on the flags word f.
JccPredicate(c, f) ==
    CASE c = \h70 -> OverflowIn(f)
      [] c = \h71 -> ~OverflowIn(f)
      [] c = \h72 -> CarryIn(f)
      [] c = \h73 -> ~CarryIn(f)
      [] c = \h74 -> ZeroIn(f)
      [] c = \h75 -> ~ZeroIn(f)
      [] c = \h78 -> SignIn(f)
      [] c = \h79 -> ~SignIn(f)
      [] c = \h7C -> SignIn(f) # OverflowIn(f)
      [] c = \h7E -> ZeroIn(f) \/ SignIn(f) # OverflowIn(f)

\* C13: a conditional short jump (0x70..0x75, 0x78, 0x79, 0x7C, 0x7E) at p with
\* displacement byte d leaves the program counter p + 2 + signext(d) mod 2^32 when
\* its predicate holds on the flags and p + 2 when it does not; flags, registers
\* and memory are unchanged.
C13_ConditionalJumps ==
    (op \notin {"init", "break"} /\ CodeAt(prev, 0) \in JccOpcodes /\ Completed) =>
        /\ Eip = IF JccPredicate(CodeAt(prev, 0), prev.Eflags)
                 THEN Add32(Add32(prev.Eip, U32(2)), Sext8(CodeAt(prev, 1)))
                 ELSE Add32(prev.Eip, U32(2))
        /\ Eflags = prev.Eflags
        /\ Registers = prev.Registers
        /\ Memory = prev.Memory

\* jl taken backwards by 0xFD with overflow set and sign clear (0x80000000 < 5).
C13_JlTakenReached ==
    /\ op = "Jl"
    /\ status = "running"
    /\ CodeAt(prev, 0) = \h7C
    /\ CodeAt(prev, 1) = \hFD
    /\ FlagOverflow /\ ~FlagSign
    /\ Eip = Sub32(prev.Eip, U32(1))

\* C14: a completed CallRel32 at p with displacement d leaves the stack pointer 4
\* lower, the return address p + 5 at the new stack pointer and the program
\* counter p + 5 + d mod 2^32; a completed Ret leaves the program counter the word
\* at the stack pointer and the stack pointer 4 higher.  In a program that starts
\* with a call (p = Org, stack pointer Org), a Ret executed with the stack pointer
\* as the call left it and the slot still holding p + 5 resumes at p + 5 with the
\* stack pointer as before the call.
C14_CallReturn ==
    /\ (op = "CallRel32" /\ Completed) =>
           /\ Registers = [prev.Registers EXCEPT ![CEsp] = Sub32(@, U32(4))]
           /\ WordIn(Memory, Idx(Registers[CEsp])) = Add32(prev.Eip, U32(5))
           /\ \A a \in 0..(MaxMemorySize - 1) :
                  a - Idx(Registers[CEsp]) \notin 0..3 => Memory[a] = prev.Memory[a]
           /\ Eip = Add32(Add32(prev.Eip, U32(5)), WordAt(prev, 1))
           /\ Eflags = prev.Eflags
    /\ (op = "Ret" /\ Completed) =>
           /\ Eip = WordIn(prev.Memory, Idx(prev.Registers[CEsp]))
           /\ Registers = [prev.Registers EXCEPT ![CEsp] = Add32(@, U32(4))]
           /\ Memory = prev.Memory
           /\ Eflags = prev.Eflags
    /\ (op = "Ret" /\ image[1] = \hE8 /\ prev.Registers[CEsp] = U32(Org - 4)
        /\ WordIn(prev.Memory, Org - 4) = U32(Org + 5)) =>
           /\ status = "running"
           /\ Eip = U32(Org + 5)
           /\ Registers[CEsp] = U32(Org)

\* call +2; ...; inc ecx; ret: the Ret has resumed behind the call.
C14_ReturnedReached ==
    /\ image[1] = \hE8
    /\ op = "Ret"
    /\ status = "running"
    /\ prev.Eip = U32(Org + 8)
    /\ Eip = U32(Org + 5)
    /\ Registers[CEsp] = U32(Org)
    /\ Registers[CEcx] = U32(1)

\* The state s with the bytes code in memory from its program counter on.
WithCode(s, code) ==
    [s EXCEPT !.Memory = [a \in DOMAIN @ |->
                              IF a - Idx(s.Eip) \in 0..(Len(code) - 1)
                              THEN code[a - Idx(s.Eip) + 1] ELSE @[a]]]

\* The bytes that may follow a ModRM byte: a SIB byte and displacement bytes.
ModrmTails ==
    {<<1, 2, 3, 4, 5>>, <<\h24, \h80, 0, 0, \h80>>, <<\h80, \h7F, \hFF, \hFF, \hFF>>,
     <<\hFF, \hFF, \hFF, \hFF, \hFF>>, <<0, 0, 0, 0, 0>>}

\* The number of SIB bytes and of displacement bytes the ModRM byte b calls for.
SibBytes(b) == IF ModOf(b) # 3 /\ RmOf(b) = 4 THEN 1 ELSE 0
DispBytes(b) ==
    IF (ModOf(b) = 0 /\ RmOf(b) = 5) \/ ModOf(b) = 2 THEN 4
    ELSE IF ModOf(b) = 1 THEN 1 ELSE 0

\* The handlers that consume a ModRM descriptor and nothing behind it.
ModrmOnlyHandlers == {"MovRm32R32", "MovR32Rm32", "AddRm32R32", "CmpR32Rm32", "MovRm8R8"}

\* C15: for every ModRM byte b, ParseModrm sets mode = bits 7..6, reg = bits 5..3,
\* r/m = bits 2..0 and advances the program counter by 1 + s + k (s = 1 for a SIB
\* byte when mode # 3 and r/m = 4; k = 4 when mode = 0 and r/m = 5 or mode = 2,
\* k = 1 when mode = 1, else 0), between 1 and 6 in all; the displacement recorded
\* is the signed value of the k bytes behind the ModRM and SIB bytes; no register,
\* flag or memory cell changes.  Checked on every ModRM byte placed at the program
\* counter of the soft-halt programs' initial states, and on the instructions run.
C15_ParseModrm ==
    /\ (op = "init" /\ image \in SoftHaltPrograms) =>
           \A b \in 0..255, tail \in ModrmTails :
               Bind(ParseModrm(WithCode(Cur, <<b>> \o tail)),
                    LAMBDA p :
                        /\ p.s.status = "running"
                        /\ p.m.Mod = ModOf(b) /\ p.m.Reg = RegOf(b) /\ p.m.Rm = RmOf(b)
                        /\ p.s.Eip = Add32(Eip, U32(1 + SibBytes(b) + DispBytes(b)))
                        /\ 1 + SibBytes(b) + DispBytes(b) \in 1..6
                        /\ SibBytes(b) = 1 => p.m.Sib = tail[1]
                        /\ DispBytes(b) = 4 =>
                               p.m.Disp32 = <<tail[SibBytes(b) + 1], tail[SibBytes(b) + 2],
                                              tail[SibBytes(b) + 3], tail[SibBytes(b) + 4]>>
                        /\ DispBytes(b) = 1 =>
                               p.m.Disp8 = IF tail[SibBytes(b) + 1] < 128
                                           THEN tail[SibBytes(b) + 1]
                                           ELSE tail[SibBytes(b) + 1] - 256
                        /\ p.s.Registers = Registers
                        /\ p.s.Eflags = Eflags
                        /\ p.s.Memory = WithCode(Cur, <<b>> \o tail).Memory)
    /\ (op \in ModrmOnlyHandlers /\ Completed) =>
           Eip = Add32(prev.Eip, U32(2 + SibBytes(CodeAt(prev, 1)) + DispBytes(CodeAt(prev, 1))))

\* mov ecx, [ebx + disp32] has run: 6 bytes consumed, 5 of them by the decoder.
C15_Disp32ConsumedReached ==
    /\ op = "MovR32Rm32"
    /\ status = "running"
    /\ CodeAt(prev, 1) = ModRMByte(2, CEcx, CEbx)
    /\ Eip = Add32(prev.Eip, U32(6))

\* The instruction just executed is a compare or a subtract: CmpR32Rm32,
\* CmpAlImm8, CmpEaxImm32, or opcode 0x83 with sub-opcode 5 or 7.
IsCompareOrSubtract ==
    \/ op \in {"CmpR32Rm32", "CmpAlImm8", "CmpEaxImm32"}
    \/ op = "Code83" /\ RegOf(CodeAt(prev, 1)) \in {5, 7}

\* C16: only the compare and subtract instructions change the flags word; every
\* other instruction (add, increment, moves, push / pop, jumps, call / return,
\* leave, software interrupt, port output) leaves it as it was, also when its
\* arithmetic wraps around 2^32.
C16_FlagFrame ==
    (op \notin {"init", "break"} /\ ~IsCompareOrSubtract) => Eflags = prev.Eflags

\* inc eax on 0xFFFFFFFF after a compare that set the sign flag: EAX wraps to 0
\* and the flags stay.
C16_IncWrapsReached ==
    /\ op = "IncR32"
    /\ status = "running"
    /\ prev.Registers[CEax] = <<\hFF, \hFF, \hFF, \hFF>>
    /\ Registers[CEax] = Zero32
    /\ FlagSign /\ ~FlagZero
    /\ Eflags = prev.Eflags

\* The software interrupt just executed had no service: a vector other than 0x10,
\* or vector 0x10 with AH other than 0x0E.
IsUnservedInterrupt ==
    /\ op = "Swi"
    /\ InMem(Add32(prev.Eip, U32(1)))
    /\ CodeAt(prev, 1) # \h10 \/ prev.Registers[CEax][2] # \h0E

\* C17: a software interrupt with a vector other than 0x10, or with vector 0x10
\* and AH other than 0x0E, advances the program counter by 2, changes no register,
\* flag or memory byte, hands nothing to the console port, neither forces the
\* program counter to 0 nor ends the process; the loop goes on with the
\* instruction that follows: in mov eax, imm32; int v; inc eax the increment is
\* executed.
C17_LenientInterrupt ==
    /\ IsUnservedInterrupt =>
           /\ status = "running"
           /\ Eip = Add32(prev.Eip, U32(2))
           /\ Eip # Zero32
           /\ Registers = prev.Registers
           /\ Eflags = prev.Eflags
           /\ Memory = prev.Memory
           /\ out = prev.out
           /\ Lt32(Eip, U32(MaxMemorySize)) => HandlerOf(CodeAt(Cur, 0)) \in Handlers
    /\ image \in SwiThenIncPrograms =>
           /\ status \in {"running", "halted"}
           /\ status = "halted" =>
                  /\ op = "default"
                  /\ prev.Eip = U32(Org + 8)
                  /\ Registers[CEax] = <<\h42, image[3], 0, 0>>

\* mov eax, 0x0041; int 0x13; inc eax: the increment behind the interrupt has run.
C17_ContinuedReached ==
    /\ image = MovImm(CEax, <<\h41, 0, 0, 0>>) \o <<\hCD, \h13, \h40>>
    /\ op = "IncR32"
    /\ status = "running"
    /\ prev.Eip = U32(Org + 7)
    /\ Registers[CEax] = <<\h42, 0, 0, 0>>

\* The instruction just executed needs a feature without an implementation: its
\* operand has r/m = 4 in mode 0, 1 or 2 (a SIB byte), or it is opcode 0x83 with a
\* sub-opcode other than 0, 5, 7, or opcode 0xFF with a sub-opcode other than 0
\* (the bytes of its descriptor inside memory).
NeedsUnimplemented ==
    /\ op \in ModrmHandlers
    /\ InMem(Add32(prev.Eip, U32(6)))
    /\ \/ ModOf(CodeAt(prev, 1)) # 3 /\ RmOf(CodeAt(prev, 1)) = 4
       \/ op = "Code83" /\ RegOf(CodeAt(prev, 1)) \notin {0, 5, 7}
       \/ op = "CodeFF" /\ RegOf(CodeAt(prev, 1)) # 0

\* C18: an instruction that needs an unimplemented feature (SIB addressing in
\* modes 0, 1, 2; opcode 0x83 with a sub-opcode other than 0, 5, 7; opcode 0xFF
\* with a sub-opcode other than 0) ends the process at once: no instruction
\* follows, the program counter is not forced to 0, and no register, flag or
\* memory cell has been written.
C18_FatalTier ==
    /\ NeedsUnimplemented =>
           /\ status = "exited"
           /\ Eip # Zero32
           /\ Registers = prev.Registers
           /\ Eflags = prev.Eflags
           /\ Memory = prev.Memory
           /\ out = prev.out
    /\ status = "exited" => ~ENABLED Next

\* mov eax, 0x12345678; mov eax, [esp*1 + ...] (8B 04 24): the process has ended
\* with EAX as it was.
C18_SibExitReached ==
    /\ op = "MovR32Rm32"
    /\ CodeAt(prev, 1) = ModRMByte(0, CEax, 4)
    /\ status = "exited"
    /\ Registers[CEax] = <<\h78, \h56, \h34, \h12>>

\* a < b as signed 32-bit integers.
SignedLess(a, b) == IF Bit31(a) # Bit31(b) THEN Bit31(a) ELSE Lt32(a, b)

\* C19: after cmp eax, ecx on a (EAX) and b (ECX), the conditional jump that
\* follows is taken exactly when: jl (0x7C), a < b signed; jle (0x7E), a <= b
\* signed; jc (0x72), a < b unsigned; jz (0x74), a = b.
C19_CompareThenJump ==
    (image \in CmpJccPrograms /\ op \in {"Jl", "Jle", "Jc", "Jz"} /\ Completed) =>
        (Eip = Add32(prev.Eip, U32(7)))
        <=> CASE CodeAt(prev, 0) = \h7C ->
                     SignedLess(prev.Registers[CEax], prev.Registers[CEcx])
              [] CodeAt(prev, 0) = \h7E ->
                     \/ SignedLess(prev.Registers[CEax], prev.Registers[CEcx])
                     \/ prev.Registers[CEax] = prev.Registers[CEcx]
              [] CodeAt(prev, 0) = \h72 -> Lt32(prev.Registers[CEax], prev.Registers[CEcx])
              [] CodeAt(prev, 0) = \h74 -> prev.Registers[CEax] = prev.Registers[CEcx]

\* 0x80000000 against 0x7FFFFFFF: less as signed numbers, so jl is taken although
\* the unsigned order is the other way.
C19_SignedLessReached ==
    /\ image \in CmpJccPrograms
    /\ op = "Jl"
    /\ status = "running"
    /\ Registers[CEax] = <<0, 0, 0, \h80>>
    /\ Registers[CEcx] = <<\hFF, \hFF, \hFF, \h7F>>
    /\ ~FlagCarry
    /\ Eip = Add32(prev.Eip, U32(7))

\* C20: the instruction with opcode 0xB0 + r (r in 0..7) loads the byte that
\* follows the opcode into byte register r, changes no other register bit, flag
\* or memory cell, reads no memory operand (so it cannot fail on one) and advances
\* the program counter by 2.
C20_MovR8Imm8 ==
    (op \notin {"init", "break"} /\ CodeAt(prev, 0) \in \hB0..\hB7
     /\ InMem(Add32(prev.Eip, U32(1)))) =>
        /\ status = "running"
        /\ Registers = ByteSet(prev.Registers, CodeAt(prev, 0) - \hB0, CodeAt(prev, 1))
        /\ Eflags = prev.Eflags
        /\ Memory = prev.Memory
        /\ Eip = Add32(prev.Eip, U32(2))

====
